---- MODULE Spec2Model ----
(***************************************************************************)
(* The ledger state machine of transaction-processor (src/src/processor.rs) *)
(* TransactionsProcessor::process replays one transaction at a time against *)
(* the per-client history; available, held and locked are derived from the  *)
(* history on demand.                                                       *)
(*                                                                          *)
(* Decimal amounts (the f64 of the input record and of the summary) are     *)
(* represented exactly, as an integer count of 1/Grid, Grid = 5 * PRECISION:*)
(* the decimal 0.0001 is 5, 0.00002 is 1.  The grid is finer than the       *)
(* fixed-point precision, so inputs below the precision exist, and 5 is odd,*)
(* so that no input is a rounding tie.  An f64 that is the double nearest   *)
(* to such a decimal is represented by the decimal; the one f64 operation   *)
(* whose result need not be such a double, the addition held + available of *)
(* summary, returns the nearest decimal and the distance from its double.   *)
(***************************************************************************)
EXTENDS Integers, FiniteSets, Sequences, TLC

\* ---- bounds of the model
MaxClient == 2
MaxTx == 2
MaxUnits == 2
MaxLen == 3
MaxCycles == 3

\* ---- processor.rs:10
PRECISION == 10000

Grid == 5 * PRECISION

ClientIds == 1..MaxClient
TransactionIds == 1..MaxTx

\* Option<f64>: None and Some(v)
None == << >>

Some(v) == <<v>>

\* Option::ok_or on Some(v)
Unwrap(o) == o[1]

\* the decimal amounts of the input records: -0.0001, 0, two amounts below the
\* precision (0.00004, which rounds to 0, and 0.00006, which rounds to 0.0001) and
\* the multiples of 0.0001 up to MaxUnits * 0.0001
AmountInputs == {0 - 5, 0, 2, 3} \cup {5 * u : u \in 1..MaxUnits}

\* the amounts carried by a dispute, resolve or chargeback record
ReferenceAmounts == {None, Some(5)}

\* the Transaction values naming the given clients, deposits and withdrawals with the
\* given amounts
TransactionsOf(clients, amounts) ==
    [transaction_type : {"Deposit", "Withdrawal"}, client : clients,
     transaction_id : TransactionIds,
     amount : {Some(v) : v \in amounts} \cup {None}]
    \cup
    [transaction_type : {"Dispute", "Resolve", "Chargeback"}, client : clients,
     transaction_id : TransactionIds, amount : ReferenceAmounts]

Transactions == TransactionsOf(ClientIds, AmountInputs)

VARIABLES clients_data, last, replay

vars == <<clients_data, last, replay>>

\* ---- amount codec

\* f64::round of the quotient n / d (d > 0): to nearest, halves away from zero
Round(n, d) ==
    IF n >= 0 THEN (2 * n + d) \div (2 * d) ELSE 0 - ((2 * (0 - n) + d) \div (2 * d))

f64_to_amount_type(v) == Round(v * PRECISION, Grid)

\* amount_type_to_f64 with a divisor of one digit less than PRECISION
amount_type_to_f64_ThreeDigits(v) == (v * Grid) \div (PRECISION \div 10)

amount_type_to_f64(v) == (v * Grid) \div PRECISION

\* ---- f64 addition

\* IEEE 754 binary64: the pairs h, a with h >= 1 and h + |a| <= 9 for which the sum
\* of the doubles h / 10000.0 and a / 10000.0 is not the double (h + a) / 10000.0,
\* each with the distance from that double in units of the last place
\* (0.0001 + 0.0002 is 0.00030000000000000003)
InexactSums ==
    {
     <<1, -6, 1>>, <<1, -4, -1>>, <<1, -3, 1>>, <<1, 2, 1>>, <<1, 3, -1>>, <<1, 5, 1>>, <<1, 8, 1>>,
     <<2, -6, 1>>, <<2, -5, -1>>, <<2, -3, 3>>, <<2, 1, 1>>, <<2, 4, 1>>, <<2, 6, -1>>,
     <<3, -5, -1>>, <<3, -4, -3>>, <<3, -2, -3>>, <<3, -1, -1>>, <<3, 1, -1>>, <<3, 5, -1>>,
     <<4, -5, 1>>, <<4, -3, 3>>, <<4, -1, 1>>, <<4, 2, 1>>,
     <<5, -4, -1>>, <<5, -3, 1>>, <<5, -2, 1>>, <<5, 1, 1>>, <<5, 3, -1>>,
     <<6, -2, -1>>, <<6, -1, -1>>, <<6, 2, -1>>,
     <<8, 1, 1>>
    }

\* the distance, in units of the last place, of the f64 sum of the doubles of the
\* decimals x and y (multiples of 0.0001, x >= 0) from the double of x + y
SumUlps(x, y) ==
    LET unit == Grid \div PRECISION
        h == x \div unit
        a == y \div unit
        hit == {e \in InexactSums : e[1] = h /\ e[2] = a}
        covered == h >= 0 /\ h + a <= 9 /\ h - a <= 9
    IN  IF h = 0 \/ a = 0 THEN 0
        ELSE IF covered /\ hit = {} THEN 0
        ELSE (CHOOSE e \in hit : covered)[3]

\* x + y on f64: the decimal nearest to the sum and the distance of the sum from the
\* double of that decimal (0 when the sum is exactly that double)
f64_add(x, y) == [nearest |-> x + y, ulps |-> SumUlps(x, y)]

\* ---- ClientData

\* ClientData::default(): no transaction in the history
DefaultClientData == [transactions_history |-> << >>]

RECURSIVE SumAmounts(_, _)
\* the sum of the stored amounts of the records of history h whose ids are in ids
SumAmounts(h, ids) ==
    IF ids = {} THEN 0
    ELSE LET id == CHOOSE x \in ids : TRUE
         IN  h[id].amount + SumAmounts(h, ids \ {id})

WithStatus(h, s) == {id \in DOMAIN h : h[id].status = s}

available(data) ==
    amount_type_to_f64(SumAmounts(data.transactions_history,
                                  WithStatus(data.transactions_history, "Processed")))

\* held that also counts the records charged back
held_WithChargeBack(data) ==
    amount_type_to_f64(SumAmounts(data.transactions_history,
                                  WithStatus(data.transactions_history, "UnderDispute")
                                    \cup WithStatus(data.transactions_history, "ChargeBack")))

held(data) ==
    amount_type_to_f64(SumAmounts(data.transactions_history,
                                  WithStatus(data.transactions_history, "UnderDispute")))

locked(data) ==
    \E id \in DOMAIN data.transactions_history :
        data.transactions_history[id].status = "ChargeBack"

\* ---- TransactionsProcessor::process

Ok == "Ok"

\* HashMap::insert / an assignment through get_mut
Put(h, id, rec) == [x \in DOMAIN h \cup {id} |-> IF x = id THEN rec ELSE h[x]]

Outcome(entry, result) == [entry |-> entry, result |-> result]

\* DepositArm without the check that the id is new
DepositArm_Overwrite(entry, t) ==
    LET h == entry.transactions_history IN
    IF t.amount = None THEN Outcome(entry, "MissingAmountValue")
    ELSE IF ~(Unwrap(t.amount) > 0) THEN Outcome(entry, "NonPositiveAmountInTransaction")
    ELSE Outcome([transactions_history |->
                    Put(h, t.transaction_id,
                        [amount |-> f64_to_amount_type(Unwrap(t.amount)), status |-> "Processed"])],
                 Ok)

DepositArm(entry, t) ==
    LET h == entry.transactions_history IN
    IF t.amount = None THEN Outcome(entry, "MissingAmountValue")
    ELSE IF ~(Unwrap(t.amount) > 0) THEN Outcome(entry, "NonPositiveAmountInTransaction")
    ELSE IF t.transaction_id \in DOMAIN h THEN Outcome(entry, "TransactionAlreadyProcessed")
    ELSE Outcome([transactions_history |->
                    Put(h, t.transaction_id,
                        [amount |-> f64_to_amount_type(Unwrap(t.amount)), status |-> "Processed"])],
                 Ok)

\* WithdrawalArm without the check that the id is new
WithdrawalArm_Overwrite(entry, t) ==
    LET h == entry.transactions_history IN
    IF t.amount = None THEN Outcome(entry, "MissingAmountValue")
    ELSE IF ~(Unwrap(t.amount) > 0) THEN Outcome(entry, "NonPositiveAmountInTransaction")
    ELSE IF ~(Unwrap(t.amount) <= available(entry)) THEN Outcome(entry, "NotEnoughFoundsAvailable")
    ELSE Outcome([transactions_history |->
                    Put(h, t.transaction_id,
                        [amount |-> f64_to_amount_type(0 - Unwrap(t.amount)), status |-> "Processed"])],
                 Ok)

\* WithdrawalArm with the check that the id is new made before the check of the funds
WithdrawalArm_IdFirst(entry, t) ==
    LET h == entry.transactions_history IN
    IF t.amount = None THEN Outcome(entry, "MissingAmountValue")
    ELSE IF ~(Unwrap(t.amount) > 0) THEN Outcome(entry, "NonPositiveAmountInTransaction")
    ELSE IF t.transaction_id \in DOMAIN h THEN Outcome(entry, "TransactionAlreadyProcessed")
    ELSE IF ~(Unwrap(t.amount) <= available(entry)) THEN Outcome(entry, "NotEnoughFoundsAvailable")
    ELSE Outcome([transactions_history |->
                    Put(h, t.transaction_id,
                        [amount |-> f64_to_amount_type(0 - Unwrap(t.amount)), status |-> "Processed"])],
                 Ok)

\* WithdrawalArm without the check of the funds
WithdrawalArm_NoFundsCheck(entry, t) ==
    LET h == entry.transactions_history IN
    IF t.amount = None THEN Outcome(entry, "MissingAmountValue")
    ELSE IF ~(Unwrap(t.amount) > 0) THEN Outcome(entry, "NonPositiveAmountInTransaction")
    ELSE IF t.transaction_id \in DOMAIN h THEN Outcome(entry, "TransactionAlreadyProcessed")
    ELSE Outcome([transactions_history |->
                    Put(h, t.transaction_id,
                        [amount |-> f64_to_amount_type(0 - Unwrap(t.amount)), status |-> "Processed"])],
                 Ok)

WithdrawalArm(entry, t) ==
    LET h == entry.transactions_history IN
    IF t.amount = None THEN Outcome(entry, "MissingAmountValue")
    ELSE IF ~(Unwrap(t.amount) > 0) THEN Outcome(entry, "NonPositiveAmountInTransaction")
    ELSE IF ~(Unwrap(t.amount) <= available(entry)) THEN Outcome(entry, "NotEnoughFoundsAvailable")
    ELSE IF t.transaction_id \in DOMAIN h THEN Outcome(entry, "TransactionAlreadyProcessed")
    ELSE Outcome([transactions_history |->
                    Put(h, t.transaction_id,
                        [amount |-> f64_to_amount_type(0 - Unwrap(t.amount)), status |-> "Processed"])],
                 Ok)

\* DisputeArm without the check that the record is a deposit
DisputeArm_NoAmountCheck(entry, t) ==
    LET h == entry.transactions_history IN
    IF t.transaction_id \notin DOMAIN h THEN Outcome(entry, "TransactionNotFound")
    ELSE IF h[t.transaction_id].status # "Processed"
         THEN Outcome(entry, "TransactionAlreadyUnderDispute")
    ELSE Outcome([transactions_history |->
                    Put(h, t.transaction_id,
                        [h[t.transaction_id] EXCEPT !.status = "UnderDispute"])],
                 Ok)

\* DisputeArm with the status written before the amount is checked
DisputeArm_WriteFirst(entry, t) ==
    LET h == entry.transactions_history IN
    IF t.transaction_id \notin DOMAIN h THEN Outcome(entry, "TransactionNotFound")
    ELSE IF h[t.transaction_id].status # "Processed"
         THEN Outcome(entry, "TransactionAlreadyUnderDispute")
    ELSE LET disputed == [transactions_history |->
                            Put(h, t.transaction_id,
                                [h[t.transaction_id] EXCEPT !.status = "UnderDispute"])]
         IN  IF ~(h[t.transaction_id].amount > 0)
             THEN Outcome(disputed, "CannotDisputeWithdrawal")
             ELSE Outcome(disputed, Ok)

\* DisputeArm that refuses a dispute of more than is available
DisputeArm_FundsCheck(entry, t) ==
    LET h == entry.transactions_history IN
    IF t.transaction_id \notin DOMAIN h THEN Outcome(entry, "TransactionNotFound")
    ELSE IF h[t.transaction_id].status # "Processed"
         THEN Outcome(entry, "TransactionAlreadyUnderDispute")
    ELSE IF ~(h[t.transaction_id].amount > 0) THEN Outcome(entry, "CannotDisputeWithdrawal")
    ELSE IF ~(amount_type_to_f64(h[t.transaction_id].amount) <= available(entry))
         THEN Outcome(entry, "NotEnoughFoundsAvailable")
    ELSE Outcome([transactions_history |->
                    Put(h, t.transaction_id,
                        [h[t.transaction_id] EXCEPT !.status = "UnderDispute"])],
                 Ok)

DisputeArm(entry, t) ==
    LET h == entry.transactions_history IN
    IF t.transaction_id \notin DOMAIN h THEN Outcome(entry, "TransactionNotFound")
    ELSE IF h[t.transaction_id].status # "Processed"
         THEN Outcome(entry, "TransactionAlreadyUnderDispute")
    ELSE IF ~(h[t.transaction_id].amount > 0) THEN Outcome(entry, "CannotDisputeWithdrawal")
    ELSE Outcome([transactions_history |->
                    Put(h, t.transaction_id,
                        [h[t.transaction_id] EXCEPT !.status = "UnderDispute"])],
                 Ok)

\* ResolveArm that resolves every record under dispute
ResolveArm_AllDisputed(entry, t) ==
    LET h == entry.transactions_history IN
    IF t.transaction_id \notin DOMAIN h THEN Outcome(entry, "TransactionNotFound")
    ELSE IF h[t.transaction_id].status # "UnderDispute"
         THEN Outcome(entry, "TransactionNotUnderDispute")
    ELSE Outcome([transactions_history |->
                    [x \in DOMAIN h |->
                        IF h[x].status = "UnderDispute"
                        THEN [h[x] EXCEPT !.status = "Processed"] ELSE h[x]]],
                 Ok)

\* ResolveArm that marks the record as resolved for good
ResolveArm_Resolved(entry, t) ==
    LET h == entry.transactions_history IN
    IF t.transaction_id \notin DOMAIN h THEN Outcome(entry, "TransactionNotFound")
    ELSE IF h[t.transaction_id].status # "UnderDispute"
         THEN Outcome(entry, "TransactionNotUnderDispute")
    ELSE Outcome([transactions_history |->
                    Put(h, t.transaction_id,
                        [h[t.transaction_id] EXCEPT !.status = "Resolved"])],
                 Ok)

ResolveArm(entry, t) ==
    LET h == entry.transactions_history IN
    IF t.transaction_id \notin DOMAIN h THEN Outcome(entry, "TransactionNotFound")
    ELSE IF h[t.transaction_id].status # "UnderDispute"
         THEN Outcome(entry, "TransactionNotUnderDispute")
    ELSE Outcome([transactions_history |->
                    Put(h, t.transaction_id,
                        [h[t.transaction_id] EXCEPT !.status = "Processed"])],
                 Ok)

\* ChargebackArm without the check that the record is under dispute
ChargebackArm_NoStatusCheck(entry, t) ==
    LET h == entry.transactions_history IN
    IF t.transaction_id \notin DOMAIN h THEN Outcome(entry, "TransactionNotFound")
    ELSE Outcome([transactions_history |->
                    Put(h, t.transaction_id,
                        [h[t.transaction_id] EXCEPT !.status = "ChargeBack"])],
                 Ok)

ChargebackArm(entry, t) ==
    LET h == entry.transactions_history IN
    IF t.transaction_id \notin DOMAIN h THEN Outcome(entry, "TransactionNotFound")
    ELSE IF h[t.transaction_id].status # "UnderDispute"
         THEN Outcome(entry, "TransactionNotUnderDispute")
    ELSE Outcome([transactions_history |->
                    Put(h, t.transaction_id,
                        [h[t.transaction_id] EXCEPT !.status = "ChargeBack"])],
                 Ok)

\* clients_data.entry(client).or_default()
ClientEntry(cd, client) == IF client \in DOMAIN cd THEN cd[client] ELSE DefaultClientData

\* ProcessEntry without the lock check
ProcessEntry_NoLockCheck(entry, t) ==
    CASE t.transaction_type = "Deposit" -> DepositArm(entry, t)
      [] t.transaction_type = "Withdrawal" -> WithdrawalArm(entry, t)
      [] t.transaction_type = "Dispute" -> DisputeArm(entry, t)
      [] t.transaction_type = "Resolve" -> ResolveArm(entry, t)
      [] t.transaction_type = "Chargeback" -> ChargebackArm(entry, t)

\* the lock check and the match on the transaction type
ProcessEntry(entry, t) ==
    IF locked(entry) THEN Outcome(entry, "AccountLocked")
    ELSE CASE t.transaction_type = "Deposit" -> DepositArm(entry, t)
           [] t.transaction_type = "Withdrawal" -> WithdrawalArm(entry, t)
           [] t.transaction_type = "Dispute" -> DisputeArm(entry, t)
           [] t.transaction_type = "Resolve" -> ResolveArm(entry, t)
           [] t.transaction_type = "Chargeback" -> ChargebackArm(entry, t)

\* the entry of a client when all the clients share one history of transactions
SharedHistoryEntry(cd, client) ==
    LET own == IF client \in DOMAIN cd THEN cd[client].transactions_history ELSE << >>
        ids == UNION {DOMAIN cd[c].transactions_history : c \in DOMAIN cd}
        Owner(id) == CHOOSE c \in DOMAIN cd : id \in DOMAIN cd[c].transactions_history
    IN  [transactions_history |->
            [id \in ids |-> IF id \in DOMAIN own THEN own[id]
                            ELSE cd[Owner(id)].transactions_history[id]]]

\* process with the ids of the transactions looked up in the ledgers of all clients
process_SharedHistory(cd, t) ==
    LET out == ProcessEntry(SharedHistoryEntry(cd, t.client), t)
    IN  [clients_data |-> Put(cd, t.client, out.entry), result |-> out.result]

\* process with the entry of the client kept only when the call succeeds
process_EntryOnSuccess(cd, t) ==
    LET out == ProcessEntry(ClientEntry(cd, t.client), t)
    IN  [clients_data |-> IF out.result = Ok THEN Put(cd, t.client, out.entry) ELSE cd,
         result |-> out.result]

\* process with the map keyed by the id of the transaction
process_KeyedByTransactionId(cd, t) ==
    LET out == ProcessEntry(ClientEntry(cd, t.transaction_id), t)
    IN  [clients_data |-> Put(cd, t.transaction_id, out.entry), result |-> out.result]

\* process(&mut self, transaction): the map after the call and the value returned
process(cd, t) ==
    LET out == ProcessEntry(ClientEntry(cd, t.client), t)
    IN  [clients_data |-> Put(cd, t.client, out.entry), result |-> out.result]

\* ---- TransactionsProcessor::summary

\* the ClientSummary of one entry of clients_data
ClientSummary(client, data) ==
    [client |-> client, available |-> available(data), held |-> held(data),
     total |-> f64_add(held(data), available(data)), locked |-> locked(data)]

RECURSIVE SortedByKey_Descending(_)
\* SortedByKey with the comparison reversed
SortedByKey_Descending(clients) ==
    IF clients = {} THEN << >>
    ELSE LET c == CHOOSE x \in clients : \A y \in clients : x >= y
         IN  <<c>> \o SortedByKey_Descending(clients \ {c})

RECURSIVE SortedByKey(_)
\* sorted_by_key(|summary| summary.client) over the keys of the map
SortedByKey(clients) ==
    IF clients = {} THEN << >>
    ELSE LET c == CHOOSE x \in clients : \A y \in clients : x <= y
         IN  <<c>> \o SortedByKey(clients \ {c})

summary(cd) ==
    LET order == SortedByKey(DOMAIN cd)
    IN  [i \in 1..Len(order) |-> ClientSummary(order[i], cd[order[i]])]

\* ---- the state machine

\* before the first call: no transaction, nothing returned
NoCall ==
    [transaction |-> [transaction_type |-> "None", client |-> 0, transaction_id |-> 0,
                      amount |-> None],
     result |-> "None",
     before |-> << >>]

\* what process_transactions returns, anyhow::Result<String>: nothing while the loop
\* runs, Err with the context of the failure, or Ok with the rows written
NotReturned == [status |-> "Running", rows |-> << >>]

Err(context) == [status |-> context, rows |-> << >>]

Returned(rows) == [status |-> Ok, rows |-> rows]

\* the run of process_transactions over a file: the records of the file, and for each
\* client how many of its records have been processed and the values returned for them
ReplayOf(records) ==
    [input |-> records,
     done |-> [c \in ClientIds |-> 0],
     results |-> [c \in ClientIds |-> << >>],
     position |-> 0,
     output |-> NotReturned]

\* calls of process that do not come from a file
NoReplay == ReplayOf(<< >>)

\* clients_data is the field of TransactionsProcessor; last is the latest call of
\* process: its argument, the value it returned and the map it was called on
Init ==
    /\ clients_data = << >>
    /\ last = NoCall
    /\ replay = NoReplay

\* one call of process, as made by the replay loop of process_transactions
Process(t) ==
    LET r == process(clients_data, t)
    IN  /\ clients_data' = r.clients_data
        /\ last' = [transaction |-> t, result |-> r.result, before |-> clients_data]

\* the replay of records that all name one client
LedgerTransactions == TransactionsOf({1}, AmountInputs)

Next == \E t \in LedgerTransactions : Process(t) /\ UNCHANGED replay

Spec == Init /\ [][Next]_vars

\* the replay of records that name any client, with amounts of 0 and 0.0001
ClientsTransactions == TransactionsOf(ClientIds, {0, 5})

NextClients == \E t \in ClientsTransactions : Process(t) /\ UNCHANGED replay

SpecClients == Init /\ [][NextClients]_vars

\* the replay of deposits only, each of a positive amount under an id that is new to
\* its client
DepositTransactions ==
    {t \in Transactions :
        /\ t.transaction_type = "Deposit"
        /\ t.amount # None
        /\ Unwrap(t.amount) > 0}

NextDeposits ==
    \E t \in DepositTransactions :
        /\ t.transaction_id \notin DOMAIN ClientEntry(clients_data, t.client).transactions_history
        /\ Process(t)
        /\ UNCHANGED replay

SpecDeposits == Init /\ [][NextDeposits]_vars

\* ---- process_transactions: the replay of a file

\* the records of the files: deposits and withdrawals of 0.0001, and disputes,
\* resolves and chargebacks without an amount
ReplayTransactions ==
    {t \in TransactionsOf(ClientIds, {5}) :
        (t.transaction_type \in {"Deposit", "Withdrawal"}) <=> (t.amount = Some(5))}

\* the files of at most MaxLen records
Inputs == UNION {[1..n -> ReplayTransactions] : n \in 0..MaxLen}

RECURSIVE Replay(_)
\* the loop of process_transactions over the records, from a new processor: the
\* map at the end and the value returned by each call; an error is logged and the
\* loop goes on
Replay(records) ==
    IF records = << >> THEN [clients_data |-> << >>, results |-> << >>]
    ELSE LET n == Len(records)
             prev == Replay(SubSeq(records, 1, n - 1))
             r == process(prev.clients_data, records[n])
         IN  [clients_data |-> r.clients_data, results |-> Append(prev.results, r.result)]

\* the summary that process_transactions writes for the records
process_transactions(records) == summary(Replay(records).clients_data)

\* the records of the file that name client c, in the order of the file
Substream(records, c) == SelectSeq(records, LAMBDA t : t.client = c)

\* the file is any of Inputs and no record of it has been processed
InitShards ==
    /\ clients_data = << >>
    /\ last = NoCall
    /\ replay \in {ReplayOf(records) : records \in Inputs}

\* the worker of client c processes the next record of its substream against the map
\* keyed by client
Worker(c) ==
    LET sub == Substream(replay.input, c) IN
    /\ replay.done[c] < Len(sub)
    /\ Process(sub[replay.done[c] + 1])
    /\ replay' = [replay EXCEPT
                    !.done[c] = @ + 1,
                    !.results[c] =
                        Append(@, process(clients_data, sub[replay.done[c] + 1]).result)]

NextShards == \E c \in ClientIds : Worker(c)

\* the replay of a file by one worker for each client, in any interleaving that keeps
\* the order of the records of each client; the order of the file is one of them
SpecShards == InitShards /\ [][NextShards]_vars

\* ---- process_transactions: the records of the file as the reader deserializes them

\* Result<Transaction, csv::Error>: a record that deserializes to t, and one that
\* does not
Parsed(t) == [parsed |-> TRUE, transaction |-> t]

Unparsed == [parsed |-> FALSE, transaction |-> NoCall.transaction]

\* the records of the files: the transactions of ReplayTransactions that name client 1,
\* and a record that does not deserialize
FileRecords == {Parsed(t) : t \in {x \in ReplayTransactions : x.client = 1}} \cup {Unparsed}

\* the files of at most MaxLen records
FileInputs == UNION {[1..n -> FileRecords] : n \in 0..MaxLen}

InitFile ==
    /\ clients_data = << >>
    /\ last = NoCall
    /\ replay \in {ReplayOf(records) : records \in FileInputs}

\* the loop has the next record to read
Reading ==
    /\ replay.output = NotReturned
    /\ replay.position < Len(replay.input)

\* an iteration of the loop on a record that deserializes: process is called and its
\* result is logged, Ok or error
ReadRecord ==
    /\ Reading
    /\ replay.input[replay.position + 1].parsed
    /\ Process(replay.input[replay.position + 1].transaction)
    /\ replay' = [replay EXCEPT !.position = @ + 1]

\* ReadMalformed that skips the record and goes on
ReadMalformed_Skip ==
    /\ Reading
    /\ ~replay.input[replay.position + 1].parsed
    /\ replay' = [replay EXCEPT !.position = @ + 1]
    /\ UNCHANGED <<clients_data, last>>

\* an iteration of the loop on a record that does not deserialize: the ? returns the
\* error from process_transactions
ReadMalformed ==
    /\ Reading
    /\ ~replay.input[replay.position + 1].parsed
    /\ replay' = [replay EXCEPT !.output = Err("Failed to deserialize transaction")]
    /\ UNCHANGED <<clients_data, last>>

\* after the last record: into_csv(processor.summary())
Finish ==
    /\ replay.output = NotReturned
    /\ replay.position = Len(replay.input)
    /\ replay' = [replay EXCEPT !.output = Returned(summary(clients_data))]
    /\ UNCHANGED <<clients_data, last>>

NextFile == ReadRecord \/ ReadMalformed \/ Finish

SpecFile == InitFile /\ [][NextFile]_vars

\* ---- process_transactions: files that dispute and resolve one deposit repeatedly

Record(kind, client, id, amount) ==
    Parsed([transaction_type |-> kind, client |-> client, transaction_id |-> id,
            amount |-> amount])

\* n records, Dispute and Resolve in turn, naming transaction id of the client
DisputeResolve(client, id, n) ==
    [i \in 1..n |-> Record(IF i % 2 = 1 THEN "Dispute" ELSE "Resolve", client, id, None)]

\* the files: possibly a deposit under another id, then the deposit and up to
\* MaxCycles cycles of Dispute and Resolve of it
CycleInputs ==
    UNION {
        {prefix \o <<Record("Deposit", c, id, Some(5 * u))>> \o DisputeResolve(c, id, n) :
            id \in TransactionIds, u \in 1..MaxUnits, n \in 0..(2 * MaxCycles),
            prefix \in {<< >>} \cup {<<Record("Deposit", c, other, Some(5 * v))>> :
                                        other \in TransactionIds, v \in 1..MaxUnits}} :
        c \in ClientIds}

InitCycles ==
    /\ clients_data = << >>
    /\ last = NoCall
    /\ replay \in {ReplayOf(records) : records \in CycleInputs}

NextCycles == ReadRecord \/ Finish

SpecCycles == InitCycles /\ [][NextCycles]_vars

\* ---- the latest call, as the properties below read it

Called == last.result # "None"

Failed == Called /\ last.result # Ok

Tx == last.transaction

\* the entry of the named client before and after the call
BeforeEntry == ClientEntry(last.before, Tx.client)

AfterEntry == ClientEntry(clients_data, Tx.client)

\* the records of client c in the map cd (none when c is not in the map)
Records(cd, c) == ClientEntry(cd, c).transactions_history

Snapshot(cd, c) == ClientSummary(c, ClientEntry(cd, c))

\* every record of history h other than id is in history g, unchanged, and g has no
\* other ids than h
OthersUnchanged(h, g, id) ==
    /\ DOMAIN g = DOMAIN h
    /\ \A x \in DOMAIN h \ {id} : g[x] = h[x]

\* ---- C1
\* C1: A call of process naming a client that is locked returns AccountLocked, whatever
\* the kind, the transaction id and the amount, and leaves the client's available,
\* held, total and locked as they were.
C1_LockedClientIsInert ==
    (Called /\ locked(BeforeEntry)) =>
        /\ last.result = "AccountLocked"
        /\ Snapshot(clients_data, Tx.client) = Snapshot(last.before, Tx.client)
        /\ locked(AfterEntry)

\* a Chargeback of a record still under dispute, refused because the client is locked
C1_Witness ==
    /\ last.result = "AccountLocked"
    /\ Tx.transaction_type = "Chargeback"
    /\ Tx.transaction_id \in DOMAIN BeforeEntry.transactions_history
    /\ BeforeEntry.transactions_history[Tx.transaction_id].status = "UnderDispute"

\* ---- C2
\* C2: A call of process that returns an error leaves every record of every client as
\* it was: none inserted, none removed, no amount or status changed.
C2_ErrorLeavesLedger ==
    Failed => \A c \in ClientIds : Records(clients_data, c) = Records(last.before, c)

\* a refused Dispute of a withdrawal, in a ledger that holds records
C2_Witness ==
    /\ last.result = "CannotDisputeWithdrawal"
    /\ Cardinality(DOMAIN BeforeEntry.transactions_history) = 2

\* ---- C3
\* the f64 that is the double nearest to the decimal d
Double(d) == [nearest |-> d, ulps |-> 0]

\* a Withdrawal of amount a for an unlocked client, with a transaction id that is
\* not in the client's ledger
WithdrawalOfFreshId ==
    /\ Called
    /\ Tx.transaction_type = "Withdrawal"
    /\ Tx.amount # None
    /\ ~locked(BeforeEntry)
    /\ Tx.transaction_id \notin DOMAIN BeforeEntry.transactions_history

\* C3: Such a Withdrawal succeeds iff a > 0 and a <= available; on success available and
\* total are lower by exactly a, held is as it was and available is not negative.
C3_WithdrawalExactlyA ==
    WithdrawalOfFreshId =>
        LET a == Unwrap(Tx.amount)
            old == Snapshot(last.before, Tx.client)
            new == Snapshot(clients_data, Tx.client)
        IN  /\ (last.result = Ok) <=> (a > 0 /\ a <= old.available)
            /\ (last.result = Ok) =>
                    /\ new.available = old.available - a
                    /\ old.total.ulps = 0
                    /\ new.total = Double(old.total.nearest - a)
                    /\ new.held = old.held
                    /\ new.available >= 0

\* ---- C4
\* C4: A successful Dispute of a record of amount a lowers available by a, raises held by
\* a, leaves total and locked as they were, and changes no other record.
C4_DisputeMovesToHeld ==
    (Called /\ Tx.transaction_type = "Dispute" /\ last.result = Ok) =>
        LET h == BeforeEntry.transactions_history
            g == AfterEntry.transactions_history
            a == amount_type_to_f64(h[Tx.transaction_id].amount)
            old == Snapshot(last.before, Tx.client)
            new == Snapshot(clients_data, Tx.client)
        IN  /\ new.available = old.available - a
            /\ new.held = old.held + a
            /\ new.total = old.total
            /\ new.locked = old.locked
            /\ OthersUnchanged(h, g, Tx.transaction_id)
            /\ g[Tx.transaction_id].amount = h[Tx.transaction_id].amount

\* ---- C5
ResolveOf(t, amount) ==
    [transaction_type |-> "Resolve", client |-> t.client,
     transaction_id |-> t.transaction_id, amount |-> amount]

\* C5: A Resolve called right after a successful Dispute of the same transaction succeeds
\* and gives back the ledger and the summary of before the Dispute; a successful
\* Resolve changes the status of the named record alone, to Processed.
C5_ResolveRevertsDispute ==
    /\ (Called /\ Tx.transaction_type = "Dispute" /\ last.result = Ok) =>
            \A amount \in ReferenceAmounts :
                LET r == process(clients_data, ResolveOf(Tx, amount))
                IN  /\ r.result = Ok
                    /\ r.clients_data = last.before
                    /\ summary(r.clients_data) = summary(last.before)
    /\ (Called /\ Tx.transaction_type = "Resolve" /\ last.result = Ok) =>
            LET h == BeforeEntry.transactions_history
                g == AfterEntry.transactions_history
            IN  /\ OthersUnchanged(h, g, Tx.transaction_id)
                /\ h[Tx.transaction_id].status = "UnderDispute"
                /\ g[Tx.transaction_id] = [h[Tx.transaction_id] EXCEPT !.status = "Processed"]

\* a successful Resolve that leaves another record under dispute
C5_Witness ==
    /\ Tx.transaction_type = "Resolve"
    /\ last.result = Ok
    /\ \E id \in DOMAIN AfterEntry.transactions_history :
            /\ id # Tx.transaction_id
            /\ AfterEntry.transactions_history[id].status = "UnderDispute"

\* ---- C6
\* C6: A successful Chargeback of a record of amount a lowers held by a and total by a,
\* leaves available as it was and locks the client; every other record is as it was.
C6_ChargebackRemovesHeld ==
    (Called /\ Tx.transaction_type = "Chargeback" /\ last.result = Ok) =>
        LET h == BeforeEntry.transactions_history
            g == AfterEntry.transactions_history
            a == amount_type_to_f64(h[Tx.transaction_id].amount)
            old == Snapshot(last.before, Tx.client)
            new == Snapshot(clients_data, Tx.client)
        IN  /\ new.held = old.held - a
            /\ old.total.ulps = 0
            /\ new.total = Double(old.total.nearest - a)
            /\ new.available = old.available
            /\ new.locked
            /\ OthersUnchanged(h, g, Tx.transaction_id)
            /\ g[Tx.transaction_id].amount = h[Tx.transaction_id].amount

\* ---- C7
\* the call changed the status of record id of client c from s1 to s2
StatusStep(c, id, kind, s1, s2) ==
    /\ Tx.transaction_type = kind
    /\ Tx.client = c
    /\ Tx.transaction_id = id
    /\ last.result = Ok
    /\ Records(last.before, c)[id].status = s1
    /\ Records(clients_data, c)[id].status = s2

\* C7: Every record that was in a ledger before a call is in it after the call, with the
\* same amount, and with the same status unless the call is a successful Dispute
\* (Processed to UnderDispute), Resolve (UnderDispute to Processed) or Chargeback
\* (UnderDispute to ChargeBack) of that record; a ChargeBack record stays ChargeBack
\* and a locked client stays locked.
C7_RecordLifecycle ==
    Called =>
        \A c \in ClientIds :
            LET h == Records(last.before, c)
                g == Records(clients_data, c)
            IN  /\ DOMAIN h \subseteq DOMAIN g
                /\ \A id \in DOMAIN h :
                        /\ g[id].amount = h[id].amount
                        /\ \/ g[id].status = h[id].status
                           \/ StatusStep(c, id, "Dispute", "Processed", "UnderDispute")
                           \/ StatusStep(c, id, "Resolve", "UnderDispute", "Processed")
                           \/ StatusStep(c, id, "Chargeback", "UnderDispute", "ChargeBack")
                        /\ h[id].status = "ChargeBack" => g[id].status = "ChargeBack"
                /\ locked(ClientEntry(last.before, c)) => locked(ClientEntry(clients_data, c))

\* a Resolve that names a record charged back earlier, next to a record under dispute
C7_Witness ==
    /\ Tx.transaction_type = "Resolve"
    /\ Tx.transaction_id \in DOMAIN BeforeEntry.transactions_history
    /\ BeforeEntry.transactions_history[Tx.transaction_id].status = "ChargeBack"
    /\ \E id \in DOMAIN AfterEntry.transactions_history :
            AfterEntry.transactions_history[id].status = "UnderDispute"

\* ---- C8
\* C8: A Deposit or Withdrawal for an unlocked client with a transaction id that is in
\* the client's ledger fails and leaves the summary of the client as it was; with an
\* amount that is present, positive and, for a Withdrawal, not above available, the
\* error is TransactionAlreadyProcessed.
C8_ReusedIdIsRefused ==
    (/\ Called
     /\ Tx.transaction_type \in {"Deposit", "Withdrawal"}
     /\ ~locked(BeforeEntry)
     /\ Tx.transaction_id \in DOMAIN BeforeEntry.transactions_history) =>
        /\ last.result # Ok
        /\ Snapshot(clients_data, Tx.client) = Snapshot(last.before, Tx.client)
        /\ (/\ Tx.amount # None
            /\ Unwrap(Tx.amount) > 0
            /\ Tx.transaction_type = "Withdrawal" =>
                    Unwrap(Tx.amount) <= available(BeforeEntry)) =>
                last.result = "TransactionAlreadyProcessed"

\* a Withdrawal within the available funds that names a record under dispute
C8_Witness ==
    /\ Tx.transaction_type = "Withdrawal"
    /\ last.result = "TransactionAlreadyProcessed"
    /\ BeforeEntry.transactions_history[Tx.transaction_id].status = "UnderDispute"

\* ---- C9
\* C9: For an unlocked client a Dispute returns TransactionNotFound when the id is not in
\* the ledger, else TransactionAlreadyUnderDispute when the status is not Processed,
\* else CannotDisputeWithdrawal when the stored amount is not positive, else Ok; a
\* failed Dispute leaves the ledger as it was.
C9_DisputeGuards ==
    (Called /\ Tx.transaction_type = "Dispute" /\ ~locked(BeforeEntry)) =>
        LET h == BeforeEntry.transactions_history
            id == Tx.transaction_id
        IN  /\ id \notin DOMAIN h => last.result = "TransactionNotFound"
            /\ (id \in DOMAIN h /\ h[id].status # "Processed") =>
                    last.result = "TransactionAlreadyUnderDispute"
            /\ (id \in DOMAIN h /\ h[id].status = "Processed" /\ h[id].amount <= 0) =>
                    last.result = "CannotDisputeWithdrawal"
            /\ (id \in DOMAIN h /\ h[id].status = "Processed" /\ h[id].amount > 0) =>
                    last.result = Ok
            /\ last.result # Ok => AfterEntry.transactions_history = h

\* a Dispute of a withdrawal, refused
C9_Witness ==
    /\ Tx.transaction_type = "Dispute"
    /\ last.result = "CannotDisputeWithdrawal"
    /\ BeforeEntry.transactions_history[Tx.transaction_id].amount < 0

\* ---- C10
\* C10: For an unlocked client a Resolve or a Chargeback succeeds iff the id is in the
\* ledger with status UnderDispute; it returns TransactionNotFound when the id is not
\* in the ledger and TransactionNotUnderDispute when the record is Processed, and a
\* failed call leaves the ledger as it was and the client unlocked.
C10_ResolveChargebackGuards ==
    (/\ Called
     /\ Tx.transaction_type \in {"Resolve", "Chargeback"}
     /\ ~locked(BeforeEntry)) =>
        LET h == BeforeEntry.transactions_history
            id == Tx.transaction_id
        IN  /\ (last.result = Ok) <=> (id \in DOMAIN h /\ h[id].status = "UnderDispute")
            /\ id \notin DOMAIN h => last.result = "TransactionNotFound"
            /\ (id \in DOMAIN h /\ h[id].status = "Processed") =>
                    last.result = "TransactionNotUnderDispute"
            /\ last.result # Ok =>
                    (AfterEntry.transactions_history = h /\ ~locked(AfterEntry))

\* a Chargeback of a deposit that is not under dispute, refused
C10_Witness ==
    /\ Tx.transaction_type = "Chargeback"
    /\ last.result = "TransactionNotUnderDispute"
    /\ BeforeEntry.transactions_history[Tx.transaction_id].amount > 0

\* ---- C11
\* the record that the latest call names, as it was before the call
NamedRecord == BeforeEntry.transactions_history[Tx.transaction_id]

NamesRecordWithStatus(status) ==
    /\ Called
    /\ Tx.transaction_id \in DOMAIN BeforeEntry.transactions_history
    /\ NamedRecord.status = status

\* C11 as stated: a Dispute naming a record whose status is ChargeBack returns
\* TransactionAlreadyUnderDispute.
C11_DisputeOfChargedBack ==
    (Tx.transaction_type = "Dispute" /\ NamesRecordWithStatus("ChargeBack")) =>
        last.result = "TransactionAlreadyUnderDispute"

\* C11: A Dispute naming a record whose status is ChargeBack returns AccountLocked,
\* because that record locks the client and the lock check comes first; the Dispute
\* arm on its own maps that record to TransactionAlreadyUnderDispute, which is what a
\* Dispute naming a record UnderDispute returns when the client is not locked.
C11_DisputeOfChargedBackIsLocked ==
    /\ (Tx.transaction_type = "Dispute" /\ NamesRecordWithStatus("ChargeBack")) =>
            /\ last.result = "AccountLocked"
            /\ DisputeArm(BeforeEntry, Tx).result = "TransactionAlreadyUnderDispute"
    /\ (/\ Tx.transaction_type = "Dispute"
        /\ NamesRecordWithStatus("UnderDispute")
        /\ ~locked(BeforeEntry)) =>
            last.result = "TransactionAlreadyUnderDispute"

\* a Dispute that names the record that was charged back
C11_Witness ==
    /\ Tx.transaction_type = "Dispute"
    /\ NamesRecordWithStatus("ChargeBack")
    /\ last.result = "AccountLocked"

\* ---- C12
\* the error that the guards of a Deposit or a Withdrawal give when they are tried in
\* the order AccountLocked, MissingAmountValue, NonPositiveAmountInTransaction,
\* NotEnoughFoundsAvailable (Withdrawal only), TransactionAlreadyProcessed
FirstFailingGuard(entry, t) ==
    IF locked(entry) THEN "AccountLocked"
    ELSE IF t.amount = None THEN "MissingAmountValue"
    ELSE IF Unwrap(t.amount) <= 0 THEN "NonPositiveAmountInTransaction"
    ELSE IF t.transaction_type = "Withdrawal" /\ Unwrap(t.amount) > available(entry)
         THEN "NotEnoughFoundsAvailable"
    ELSE IF t.transaction_id \in DOMAIN entry.transactions_history
         THEN "TransactionAlreadyProcessed"
    ELSE Ok

\* C12: The result of a Deposit or a Withdrawal is the error of the first failing guard
\* in the order AccountLocked, MissingAmountValue, NonPositiveAmountInTransaction,
\* NotEnoughFoundsAvailable (Withdrawal only), TransactionAlreadyProcessed, and Ok when
\* no guard fails.
C12_FirstFailingGuard ==
    (Called /\ Tx.transaction_type \in {"Deposit", "Withdrawal"}) =>
        last.result = FirstFailingGuard(BeforeEntry, Tx)

\* a Withdrawal of more than is available under an id that is in the ledger
C12_Witness ==
    /\ Tx.transaction_type = "Withdrawal"
    /\ Tx.transaction_id \in DOMAIN BeforeEntry.transactions_history
    /\ Tx.amount # None
    /\ Unwrap(Tx.amount) > available(BeforeEntry)
    /\ last.result = "NotEnoughFoundsAvailable"

\* ---- C13
\* C13: A call of process naming client c, whether it succeeds or fails, leaves every
\* other client as it was: known or not known as before, with the same records and
\* the same available, held, total and locked.
C13_OtherClientsUnchanged ==
    Called =>
        \A c \in ClientIds \ {Tx.client} :
            /\ (c \in DOMAIN clients_data) <=> (c \in DOMAIN last.before)
            /\ Records(clients_data, c) = Records(last.before, c)
            /\ Snapshot(clients_data, c) = Snapshot(last.before, c)

\* a call that changed the ledger of its client while another client holds a record
\* under the same id
C13_Witness ==
    /\ last.result = Ok
    /\ \E c \in ClientIds \ {Tx.client} :
            Tx.transaction_id \in DOMAIN Records(last.before, c)

\* ---- C14
\* the id of the latest call is in the ledger of another client and not in the ledger
\* of the client that the call names
IdOnlyElsewhere ==
    /\ Called
    /\ Tx.transaction_id \notin DOMAIN BeforeEntry.transactions_history
    /\ \E c \in ClientIds \ {Tx.client} :
            Tx.transaction_id \in DOMAIN Records(last.before, c)

OtherRecordsUnchanged ==
    \A c \in ClientIds \ {Tx.client} : Records(clients_data, c) = Records(last.before, c)

\* C14 as stated: a Dispute, Resolve or Chargeback with an id that only another client
\* has returns TransactionNotFound and leaves the other client's records as they
\* were, and a Deposit or Withdrawal with such an id is not refused as
\* TransactionAlreadyProcessed.
C14_IdsScopedPerClient ==
    IdOnlyElsewhere =>
        /\ Tx.transaction_type \in {"Dispute", "Resolve", "Chargeback"} =>
                (last.result = "TransactionNotFound" /\ OtherRecordsUnchanged)
        /\ Tx.transaction_type \in {"Deposit", "Withdrawal"} =>
                last.result # "TransactionAlreadyProcessed"

\* C14: With an id that only another client has, a Dispute, Resolve or Chargeback
\* returns TransactionNotFound when the named client is not locked and AccountLocked
\* when it is, and leaves the other client's records as they were; a Deposit or
\* Withdrawal with such an id is not refused as TransactionAlreadyProcessed.
C14_IdsScopedPerUnlockedClient ==
    IdOnlyElsewhere =>
        /\ Tx.transaction_type \in {"Dispute", "Resolve", "Chargeback"} =>
                /\ last.result = (IF locked(BeforeEntry) THEN "AccountLocked"
                                  ELSE "TransactionNotFound")
                /\ OtherRecordsUnchanged
        /\ Tx.transaction_type \in {"Deposit", "Withdrawal"} =>
                last.result # "TransactionAlreadyProcessed"

\* a Dispute by a client that is not locked of a deposit that another client made
C14_Witness ==
    /\ IdOnlyElsewhere
    /\ Tx.transaction_type = "Dispute"
    /\ ~locked(BeforeEntry)
    /\ last.result = "TransactionNotFound"
    /\ \E c \in ClientIds \ {Tx.client} :
            /\ Tx.transaction_id \in DOMAIN Records(clients_data, c)
            /\ Records(clients_data, c)[Tx.transaction_id].status = "Processed"

\* ---- C15
\* every worker has processed all the records of its client
AllDone == \A c \in ClientIds : replay.done[c] = Len(Substream(replay.input, c))

\* the records of a file, each with the value that the replay in the order of the file
\* returns for it
Paired(records) ==
    LET results == Replay(records).results
    IN  [i \in 1..Len(records) |-> [transaction |-> records[i], result |-> results[i]]]

\* the values that the replay in the order of the file returns for the records of
\* client c
ResultsFor(records, c) ==
    LET pairs == SelectSeq(Paired(records), LAMBDA x : x.transaction.client = c)
    IN  [i \in 1..Len(pairs) |-> pairs[i].result]

\* C15: In every interleaving of the substreams of the clients that keeps the order of
\* the records of each client, every record gets the value (Ok or the error) that it
\* gets in the replay in the order of the file, and when all records are processed
\* the summary is the summary of the replay in the order of the file.
C15_ShardsEqualSequentialReplay ==
    /\ \A c \in ClientIds :
            replay.results[c] = SubSeq(ResultsFor(replay.input, c), 1, replay.done[c])
    /\ AllDone => summary(clients_data) = process_transactions(replay.input)

\* all records processed, the last one processed is not the last one of the file, one
\* client has a record accepted and a record refused, and another client has records
C15_Witness ==
    /\ AllDone
    /\ replay.input # << >>
    /\ last.transaction # replay.input[Len(replay.input)]
    /\ \E c, d \in ClientIds :
            /\ c # d
            /\ replay.results[d] # << >>
            /\ \E i, j \in 1..Len(replay.results[c]) :
                    replay.results[c][i] = Ok /\ replay.results[c][j] # Ok

\* ---- C16
\* the client ids of the rows of a summary, as a set
RowClients(rows) == {rows[i].client : i \in 1..Len(rows)}

\* C16: summary() has exactly one row for each client of the map, the rows are in
\* strictly ascending order of client id, and each row is the snapshot of its client,
\* whatever the order in which the clients were first named.
C16_SummarySortedOnePerClient ==
    LET rows == summary(clients_data)
    IN  /\ Len(rows) = Cardinality(DOMAIN clients_data)
        /\ RowClients(rows) = DOMAIN clients_data
        /\ \A i \in 1..Len(rows) - 1 : rows[i].client < rows[i + 1].client
        /\ \A i \in 1..Len(rows) : rows[i] = Snapshot(clients_data, rows[i].client)

\* the first call naming a client comes after a call naming a client of greater id
C16_Witness ==
    /\ Called
    /\ Tx.client \notin DOMAIN last.before
    /\ \E c \in DOMAIN last.before : c > Tx.client
    /\ Len(summary(clients_data)) >= 2

\* ---- C17
\* the row of a client with available = held = total = 0 and locked = false
ZeroRow(c) ==
    [client |-> c, available |-> 0, held |-> 0, total |-> Double(0), locked |-> FALSE]

\* C17: The summary is empty before the first call; every call, successful or failed,
\* adds the client it names to the clients of the summary and adds no other; and a
\* client for which no call has succeeded (its ledger has no record) has the row
\* available = held = total = 0, locked = false.
C17_SummaryClientsAreNamedClients ==
    LET rows == summary(clients_data)
    IN  /\ ~Called => rows = << >>
        /\ Called => RowClients(rows) = RowClients(summary(last.before)) \cup {Tx.client}
        /\ \A i \in 1..Len(rows) :
                Records(clients_data, rows[i].client) = << >> => rows[i] = ZeroRow(rows[i].client)

\* the first call naming a client fails, and the client is in the summary with zeros
C17_Witness ==
    /\ Failed
    /\ Tx.client \notin DOMAIN last.before
    /\ \E i \in 1..Len(summary(clients_data)) :
            summary(clients_data)[i] = ZeroRow(Tx.client)

\* ---- C18
\* the records of a file for which the replay in the order of the file returns Ok
OkOnly(records) ==
    LET pairs == SelectSeq(Paired(records), LAMBDA x : x.result = Ok)
    IN  [i \in 1..Len(pairs) |-> pairs[i].transaction]

\* the clients named by the records
NamedClients(records) == {records[i].client : i \in 1..Len(records)}

C19_DepositsSum ==
    Called =>
        /\ held(AfterEntry) = 0
        /\ ~locked(AfterEntry)
        /\ available(AfterEntry) = available(BeforeEntry) + Unwrap(Tx.amount)
        /\ Snapshot(clients_data, Tx.client).total = Double(available(AfterEntry))

\* ---- C20
\* the decimal 0.0001
Unit == Grid \div PRECISION

\* the decimal has at most 4 digits after the point
FourDigits(a) == a % Unit = 0

ProcessedSum(entry) ==
    SumAmounts(entry.transactions_history,
               WithStatus(entry.transactions_history, "Processed"))

\* a Deposit or Withdrawal with an amount for a client that is not locked
AmountGuarded ==
    /\ Called
    /\ Tx.transaction_type \in {"Deposit", "Withdrawal"}
    /\ Tx.amount # None
    /\ ~locked(BeforeEntry)

\* C21: The amount of a Deposit or Withdrawal passes the positivity guard iff
\* round(amount * 10000) > 0, and the amount of a Withdrawal that passed it passes the
\* funds guard iff round(amount * 10000) <= the fixed-point sum of the Processed records
\* of the client.
C21_GuardsOnFixedPoint ==
    AmountGuarded =>
        LET fixed == f64_to_amount_type(Unwrap(Tx.amount))
        IN  /\ (last.result # "NonPositiveAmountInTransaction") <=> (fixed > 0)
            /\ (Tx.transaction_type = "Withdrawal" /\ fixed > 0) =>
                    ((last.result # "NotEnoughFoundsAvailable") <=>
                        (fixed <= ProcessedSum(BeforeEntry)))

\* ---- C22
\* C22: The record created by a successful Deposit has a stored amount > 0 and the
\* record created by a successful Withdrawal has a stored amount < 0, whatever the
\* accepted amount.
C22_StoredSign ==
    (AmountGuarded /\ last.result = Ok) =>
        LET stored == AfterEntry.transactions_history[Tx.transaction_id].amount
        IN  IF Tx.transaction_type = "Deposit" THEN stored > 0 ELSE stored < 0

\* ---- C23
\* the second model: the running counters of one client, in fixed point
ZeroCounters == [available |-> 0, held |-> 0, locked |-> FALSE]

\* the update of the counters by a call that returned result, a being the fixed-point
\* amount of the record that the call creates or names
CounterUpdate(counters, kind, a, result) ==
    IF result # Ok THEN counters
    ELSE CASE kind = "Deposit" -> [counters EXCEPT !.available = @ + a]
           [] kind = "Withdrawal" -> [counters EXCEPT !.available = @ - a]
           [] kind = "Dispute" -> [counters EXCEPT !.available = @ - a, !.held = @ + a]
           [] kind = "Resolve" -> [counters EXCEPT !.available = @ + a, !.held = @ - a]
           [] kind = "Chargeback" -> [counters EXCEPT !.held = @ - a, !.locked = TRUE]

\* the counters as the scan of the history gives them
ScanCounters(entry) ==
    [available |-> ProcessedSum(entry),
     held |-> SumAmounts(entry.transactions_history,
                         WithStatus(entry.transactions_history, "UnderDispute")),
     locked |-> locked(entry)]

\* the fixed-point amount a of the latest call: of the record it names when that is in
\* the ledger, else of the amount it carries
CallAmount ==
    IF Tx.transaction_type \in {"Dispute", "Resolve", "Chargeback"}
    THEN IF Tx.transaction_id \in DOMAIN BeforeEntry.transactions_history
         THEN NamedRecord.amount ELSE 0
    ELSE IF Tx.amount = None THEN 0 ELSE f64_to_amount_type(Unwrap(Tx.amount))

\* C23: The counters of a new client are those of the scan of an empty history, and
\* every call takes counters that agree with the scan of the history before it to
\* counters that agree with the scan of the history after it, for the client named;
\* the summary shows these counters: available and held converted, locked, and as
\* total the f64 sum of the two, which is nearest to the sum of the counters.
C23_CountersAgreeWithScan ==
    /\ ScanCounters(DefaultClientData) = ZeroCounters
    /\ Called =>
            LET counters == CounterUpdate(ScanCounters(BeforeEntry), Tx.transaction_type,
                                          CallAmount, last.result)
                row == Snapshot(clients_data, Tx.client)
            IN  /\ counters = ScanCounters(AfterEntry)
                /\ row.available = amount_type_to_f64(counters.available)
                /\ row.held = amount_type_to_f64(counters.held)
                /\ row.total.nearest = amount_type_to_f64(counters.available + counters.held)
                /\ row.locked = counters.locked

\* a Chargeback accepted while another record of the client stays under dispute
C23_Witness ==
    /\ last.result = Ok
    /\ Tx.transaction_type = "Chargeback"
    /\ ScanCounters(AfterEntry).held > 0
    /\ ScanCounters(AfterEntry).locked

\* ---- C24
\* the latest call names a deposit of its client, with the given status before the
\* call, and the other records of the client are withdrawals (at least one): the
\* ledger after a deposit and withdrawals of part or all of it
NamesDepositWithdrawnFrom(status) ==
    /\ NamesRecordWithStatus(status)
    /\ NamedRecord.amount > 0
    /\ \A id \in DOMAIN BeforeEntry.transactions_history \ {Tx.transaction_id} :
            /\ BeforeEntry.transactions_history[id].status = "Processed"
            /\ BeforeEntry.transactions_history[id].amount < 0
    /\ DOMAIN BeforeEntry.transactions_history # {Tx.transaction_id}

\* C24: After a deposit and a withdrawal of part or all of it, the Dispute of the deposit
\* succeeds (it has no funds check) and leaves available below zero, at minus the
\* amount withdrawn; the Chargeback that follows succeeds and leaves the client
\* locked with held = 0 and available and total below zero.
C24_LockedWithNegativeFunds ==
    /\ (Tx.transaction_type = "Dispute" /\ NamesDepositWithdrawnFrom("Processed")) =>
            /\ last.result = Ok
            /\ available(AfterEntry) < 0
            /\ available(AfterEntry) = available(BeforeEntry) - amount_type_to_f64(NamedRecord.amount)
            /\ ~locked(AfterEntry)
    /\ (Tx.transaction_type = "Chargeback" /\ NamesDepositWithdrawnFrom("UnderDispute")) =>
            /\ last.result = Ok
            /\ locked(AfterEntry)
            /\ held(AfterEntry) = 0
            /\ available(AfterEntry) < 0
            /\ Snapshot(clients_data, Tx.client).total = Double(available(AfterEntry))

\* the Chargeback of a deposit of 0.0002 after a withdrawal of 0.0001
C24_Witness ==
    /\ Tx.transaction_type = "Chargeback"
    /\ NamesDepositWithdrawnFrom("UnderDispute")
    /\ NamedRecord.amount = 2
    /\ last.result = Ok
    /\ locked(AfterEntry)
    /\ Snapshot(clients_data, Tx.client).total = Double(0 - Unit)

\* ---- C25
\* the places of the file whose record does not deserialize
UnparsedAt == {i \in 1..Len(replay.input) : ~replay.input[i].parsed}

DeserializeError == Err("Failed to deserialize transaction")

\* C25: process_transactions returns a summary only when every record of the file
\* deserializes, and then after the last record; when it returns an error it returns
\* no summary, the error is that of the first record that does not deserialize, and
\* every record before it has been processed: an error of process for a record never
\* makes process_transactions return.
C25_ParseErrorAbortsRun ==
    /\ replay.output.status = Ok =>
            /\ UnparsedAt = {}
            /\ replay.position = Len(replay.input)
            /\ replay.output.rows = summary(clients_data)
    /\ replay.output.status \notin {Ok, "Running"} =>
            /\ replay.output = DeserializeError
            /\ replay.position + 1 \in UnparsedAt
            /\ \A i \in UnparsedAt : i > replay.position
    /\ (Called /\ replay.position >= 1) =>
            /\ replay.input[replay.position].parsed
            /\ replay.input[replay.position].transaction = Tx

\* the run returns the error at the third record, after a record that was accepted and
\* a record that process refused
C25_Witness ==
    /\ replay.output = DeserializeError
    /\ replay.position = 2
    /\ Failed
    /\ \E c \in DOMAIN clients_data : clients_data[c].transactions_history # << >>

\* ---- C26
\* C26: Every client has at most one record with status ChargeBack; a call naming a
\* locked client leaves its history as it was, so a second Chargeback is refused with
\* AccountLocked and the records under dispute stay under dispute; and a successful
\* Chargeback changes the named record alone.
C26_AtMostOneChargedBack ==
    /\ \A c \in DOMAIN clients_data :
            Cardinality(WithStatus(clients_data[c].transactions_history, "ChargeBack")) <= 1
    /\ (Called /\ locked(BeforeEntry)) =>
            /\ last.result = "AccountLocked"
            /\ AfterEntry.transactions_history = BeforeEntry.transactions_history
            /\ held(AfterEntry) = held(BeforeEntry)
    /\ (Tx.transaction_type = "Chargeback" /\ last.result = Ok) =>
            /\ OthersUnchanged(BeforeEntry.transactions_history,
                               AfterEntry.transactions_history, Tx.transaction_id)
            /\ WithStatus(AfterEntry.transactions_history, "UnderDispute") =
                    WithStatus(BeforeEntry.transactions_history, "UnderDispute")
                        \ {Tx.transaction_id}

\* a Chargeback of a record under dispute, refused because another record of the
\* client was charged back
C26_Witness ==
    /\ Tx.transaction_type = "Chargeback"
    /\ NamesRecordWithStatus("UnderDispute")
    /\ last.result = "AccountLocked"
    /\ AfterEntry.transactions_history[Tx.transaction_id].status = "UnderDispute"
    /\ Cardinality(WithStatus(AfterEntry.transactions_history, "ChargeBack")) = 1

\* ---- C27
\* C27: Every record with status UnderDispute or ChargeBack has a stored amount > 0, and
\* held of every client is >= 0.
C27_DisputedArePositive ==
    \A c \in DOMAIN clients_data :
        LET h == clients_data[c].transactions_history
        IN  /\ \A id \in DOMAIN h :
                    h[id].status \in {"UnderDispute", "ChargeBack"} => h[id].amount > 0
            /\ held(clients_data[c]) >= 0

\* a Dispute of a withdrawal, refused, in a ledger with a record under dispute
C27_Witness ==
    /\ Tx.transaction_type = "Dispute"
    /\ last.result = "CannotDisputeWithdrawal"
    /\ NamedRecord.amount < 0
    /\ held(AfterEntry) > 0

\* ---- C28
\* the f64 is not below zero
NonNegative(double) == double.nearest > 0 \/ (double.nearest = 0 /\ double.ulps >= 0)

\* C28: Every client that is not locked has total >= 0, and available >= 0 when none of
\* its records is UnderDispute; available < 0 only with a record UnderDispute or with
\* the client locked.
C28_UnlockedNotNegative ==
    \A c \in DOMAIN clients_data :
        LET data == clients_data[c]
            disputed == WithStatus(data.transactions_history, "UnderDispute")
        IN  /\ ~locked(data) => NonNegative(Snapshot(clients_data, c).total)
            /\ (~locked(data) /\ disputed = {}) => available(data) >= 0
            /\ available(data) < 0 => (disputed # {} \/ locked(data))

\* a Withdrawal refused for a client that is not locked, with available below zero
\* and a deposit under dispute
C28_Witness ==
    /\ Tx.transaction_type = "Withdrawal"
    /\ last.result = "NotEnoughFoundsAvailable"
    /\ ~locked(AfterEntry)
    /\ available(AfterEntry) < 0
    /\ held(AfterEntry) > 0

\* ---- C29
\* the transactions of the first n records of the file
FileTransactions(n) == [i \in 1..n |-> replay.input[i].transaction]

\* the places of the Dispute records among the first n records of the file
DisputesIn(n) == {i \in 1..n : replay.input[i].transaction.transaction_type = "Dispute"}

\* the place of the first Dispute of the file
FirstDispute ==
    CHOOSE i \in DisputesIn(Len(replay.input)) :
        \A j \in DisputesIn(Len(replay.input)) : i <= j

\* C29: In a file that disputes and resolves one deposit of a client again and again,
\* every Dispute returns Ok and moves the amount of the deposit from available to
\* held, leaving all clients as the first Dispute left them, and every Resolve returns
\* Ok and leaves all clients as they were before the first Dispute.
C29_DisputeResolveCycles ==
    /\ (Called /\ Tx.transaction_type = "Dispute") =>
            /\ last.result = Ok
            /\ clients_data = Replay(FileTransactions(FirstDispute)).clients_data
            /\ held(AfterEntry) =
                    held(BeforeEntry) + amount_type_to_f64(NamedRecord.amount)
            /\ available(AfterEntry) =
                    available(BeforeEntry) - amount_type_to_f64(NamedRecord.amount)
            /\ NamedRecord.amount > 0
    /\ (Called /\ Tx.transaction_type = "Resolve") =>
            /\ last.result = Ok
            /\ clients_data = Replay(FileTransactions(FirstDispute - 1)).clients_data

\* the Dispute of cycle MaxCycles, after MaxCycles - 1 cycles of Dispute and Resolve
C29_Witness ==
    /\ Tx.transaction_type = "Dispute"
    /\ last.result = Ok
    /\ Cardinality(DisputesIn(replay.position)) = MaxCycles
    /\ held(AfterEntry) > 0

====
